---- MODULE Spec2Model ----
(***************************************************************************)
(* The agent loops of btang01/claude-basics and the stores they use.       *)
(*                                                                         *)
(* Five loop variants are modelled, one per script of the repository:      *)
(*   "simplest"  src/simplest-client.py         run_agent                  *)
(*   "simple"    src/simple-client.py           run_agent                  *)
(*   "budget"    src/simplest-client-budget.py  run_agent                  *)
(*   "stocks"    src/simplest-client-stocks.py  run_agent                  *)
(*   "memory"    src/simple-client-memory.py    chat_with_memory           *)
(*                                                                         *)
(* Representation.  A turn is [role, content]; content is a sequence of    *)
(* blocks.  A turn whose Python content is a bare str s is written as the  *)
(* one-block content <<[type |-> "str", text |-> s]>>, so that it stays    *)
(* distinct from a list holding a text block.  Python strings are TLA+     *)
(* strings; f-strings are concatenations.  A dict is a function from keys  *)
(* to values.  The completion provider and the tool host are the           *)
(* environment: the blocks of a response are drawn one at a time, in       *)
(* order, as the loop reaches them, and the stop reason when the loop      *)
(* reads it.                                                               *)
(***************************************************************************)
EXTENDS Integers, Sequences, FiniteSets, TLC

VARIABLES
    variant,            \* which loop runs in this session
    script,             \* provider behaviour: "any" or "loop" (see ProviderScripts)
    max_iterations_arg, \* the max_iterations argument passed by the caller
    max_iterations,     \* the local max_iterations the while condition reads
    iteration,          \* the loop counter (iteration / iterations)
    pc,                 \* "call", "blocks", "input", "done"
    messages,           \* the persisted conversation (messages / memory.messages)
    sent,               \* the message list handed to the provider at the last call
    assistant_content,  \* chat_with_memory: text blocks buffered for this response
    used_tool,          \* used_tool / tool_used flag of the current iteration
    nblocks,            \* blocks of the current response already handled
    stop_reason,        \* response.stop_reason last read by the exit condition
    exit,               \* how the session ended: "none" while it runs
    returned,           \* the value the session function returned
    printed,            \* the termination messages the session printed
    calls,              \* history: provider calls made so far
    blocks_total,       \* history: blocks handled in the whole session
    saw_tool_use,       \* history: the current response held a tool_use block
    tokens,             \* history: cumulative usage.output_tokens reported
    dispatched,         \* history: the calls handed to the tool executor, each
                        \* with the number of the response that requested it
    last_result,        \* history: the tool call of the block handled last, if any
    provider_error,     \* history: the class of the failure messages.create
                        \* raised in this session, None while none was raised
    store,              \* ConversationMemory.messages of the store under test
    view,               \* the list last returned by get_messages
    view_expect,        \* history: what the holder of view did to its own list
    store_expect,       \* history: what the store's methods appended
    aliased,            \* view and store.messages are the same list object
    store_kind,         \* which store class is under test
    recent_call,        \* history: the last get_recent_messages call if any,
                        \* its argument, the list it read, the list it returned
    entities,           \* EntityMemory.entities of the session / store under test
    entities_b,         \* entities of a second EntityMemory, built on its own
    ent_kind,           \* which EntityMemory class is under test
    ent_log,            \* history: the entity store method calls made, in order
    retry,              \* the running call of call_with_retries /
                        \* run_tool_with_retries: its arguments, locals and outcome
    listed,             \* get_enriched_tools: the tool objects client.list_tools()
                        \* returned, as they are now
    listed_orig,        \* history: the same tools as list_tools() returned them
    enriched,           \* get_enriched_tools: the local list enriched
    enrich_pc,          \* "start", "loop", "returned", "raised"
    sessions,           \* two sessions in one process: the locals of each
    memories,           \* ... the ConversationMemory objects, by object id
    entity_memories,    \* ... the EntityMemory objects, by object id
    tool_lists,         \* ... the enriched tool lists, by object id
    alone               \* history: each session replayed alone on the same inputs

loopvars == <<variant, script, max_iterations_arg, max_iterations, iteration, pc,
              messages, sent, assistant_content, used_tool, nblocks, stop_reason,
              exit, returned, printed, calls, blocks_total, saw_tool_use, tokens,
              dispatched, last_result, provider_error>>
storevars == <<store, view, view_expect, store_expect, aliased, store_kind,
               recent_call>>
entvars == <<entities, entities_b, ent_kind, ent_log>>
retryvars == <<retry>>
schemavars == <<listed, listed_orig, enriched, enrich_pc>>
pairvars == <<sessions, memories, entity_memories, tool_lists, alone>>
vars == <<loopvars, storevars, entvars, retryvars, schemavars, pairvars>>

-----------------------------------------------------------------------------
(* Bounds of the model.                                                    *)

\* provider calls of a session whose provider is unconstrained
MaxCalls == 2
\* blocks the unconstrained provider emits in one session
MaxBlocks == 3
\* provider calls after which a session that never counts iterations is cut off
CallCap == 32
\* appends made to a store under test
MaxStore == 3
\* widest window asked of get_recent_messages
MaxWindow == 4
\* method calls made on the entity stores under test
MaxEntityOps == 3
\* attempts whose outcome the environment of a retried call fixes in advance
MaxOutcomes == 5

(* Program constants.                                                      *)

\* simplest-client.py:44, simple-client.py:35, simplest-client-budget.py:65,
\* simplest-client-stocks.py:127
RunAgentMaxIterations == 20
\* simple-client-memory.py:160
ChatMaxIterations == 30
\* simple-client-memory.py:157 (default of the max_iterations parameter)
ChatMaxIterationsDefault == 25
\* max_tokens of every messages.create call, e.g. simple-client-memory.py:187
MaxTokens == 1024
\* simplest-client-stocks.py:202
CallMaxRetries == 5
\* simplest-client-stocks.py:214 (default of the max_retries parameter)
ToolMaxRetriesDefault == 3

(* "any": the provider may answer anything, for MaxCalls calls.            *)
(* "loop": the provider requests the same tool on every response, the tool *)
(* succeeds, and the stop reason is tool_use.                              *)
ProviderScripts == {"any", "loop"}

StopReasons == {"tool_use", "end_turn", "max_tokens", "other"}

None == "None"

-----------------------------------------------------------------------------
(* Python values and conversions.                                          *)

\* a Python str / float held by a tool result; v is its text
PyStr(s) == [py |-> "str", v |-> s]
PyFloat(s) == [py |-> "float", v |-> s]

\* json.dumps(x) (with default=str in the stocks store): a str is quoted, a
\* number is written as its digits; the value is the text of a Python str
JsonDumps(x) == IF x.py = "str" THEN "\"" \o x.v \o "\"" ELSE x.v

\* the comparison without strip() and lower()
StripLower_Exact(s) == s

\* user_input.strip().lower() on the inputs the model draws
StripLower(s) == IF s = " End Conversation " THEN "end conversation" ELSE s

\* dict.get(key) with the default None
DictGet(d, k) == IF k \in DOMAIN d THEN d[k] ELSE None

\* truthiness of a value returned by DictGet on a dict of strings
Truthy(x) == x # None /\ x # ""

-----------------------------------------------------------------------------
(* Turns and blocks, as the loops build them.                              *)

TextBlock(s) == [type |-> "text", text |-> s]

\* {"role": "user", "content": text}
UserStrTurn(s) == [role |-> "user", content |-> <<[type |-> "str", text |-> s]>>]
\* {"role": role, "content": [{"type": "text", "text": text}]}
TextTurn(role, s) == [role |-> role, content |-> <<TextBlock(s)>>]
\* {"role": "assistant", "content": [{"type": "tool_use", ...}]}
ToolUseTurn(id, name, input) ==
    [role |-> "assistant",
     content |-> <<[type |-> "tool_use", id |-> id, name |-> name, input |-> input]>>]
\* {"role": "user", "content": [{"type": "tool_result", "tool_use_id": ..}]}
ToolResultTurn(id, content) ==
    [role |-> "user",
     content |-> <<[type |-> "tool_result", tool_use_id |-> id, content |-> content]>>]
\* {"role": "assistant", "content": assistant_content}
AssistantTurn(blocks) == [role |-> "assistant", content |-> blocks]

-----------------------------------------------------------------------------
(* The environment: what the user types, what the provider may emit, what  *)
(* the tool host answers.                                                  *)

SeedInput == "What is the weather in Boston?"
UserInputs == {"and tomorrow?", " End Conversation "}

Call(name, input) == [name |-> name, input |-> input]

WeatherCall == Call("get_weather_from_city", ("city" :> "boston"))
ProfileCall == Call("get_city_from_profile", ("profile" :> "brian"))
ProfileByNameCall == Call("get_city_from_profile", ("name" :> "brian"))
NewsCall == Call("get_latest_stock_news", ("ticker_name" :> "amzn"))
BalanceCall == Call("get_account_balance", ("user_account_name" :> "briantang"))
\* valid under the declared schema, whose "required" omits selected_category
\* (simplest-client-budget.py:51), yet short of the function's parameters
BudgetNoCategoryCall ==
    Call("get_budget_per_category", ("user_account_name" :> "jorgemartinez1"))
UnknownCall == Call("no_such_tool", ("q" :> "x"))

\* the tool calls the provider may request from each loop
ProviderCalls(v) ==
    CASE v = "simplest" -> {WeatherCall, UnknownCall}
      [] v = "simple"   -> {WeatherCall, UnknownCall}
      [] v = "budget"   -> {BalanceCall, BudgetNoCategoryCall, UnknownCall}
      [] v = "stocks"   -> {NewsCall, UnknownCall}
      [] v = "memory"   -> {WeatherCall, ProfileCall, ProfileByNameCall}

\* the call the "loop" provider repeats
LoopCall(v) ==
    CASE v = "budget" -> BalanceCall
      [] v = "stocks" -> NewsCall
      [] OTHER        -> WeatherCall

\* the loops whose tools are local functions reached through tool_runners
LocalVariants == {"simplest", "budget", "stocks"}

\* tool_runners: the parameters of each registered local function
tool_runners(v) ==
    CASE v = "simplest" -> ("get_city_from_name" :> {"name"}
                            @@ "get_weather_from_city" :> {"city"})
      [] v = "budget"   -> ("get_transactions" :> {"user_account_name"}
                            @@ "get_account_balance" :> {"user_account_name"}
                            @@ "get_budget_per_category" :>
                                   {"user_account_name", "selected_category"})
      [] v = "stocks"   -> ("get_stock_price_yesterday" :> {"ticker_name"}
                            @@ "get_stock_price_today" :> {"ticker_name"}
                            @@ "get_latest_stock_news" :> {"ticker_name"})

Ok(d) == [ok |-> TRUE, data |-> d, error |-> ""]
Err(e) == [ok |-> FALSE, data |-> PyStr(""), error |-> e]

\* tool_runners[block.name](tool_input): KeyError for a name that is not a key,
\* TypeError when the keyword arguments are not the function's parameters,
\* else the value the function returns for the inputs the model draws
LocalToolOutcomes(v, c) ==
    IF c.name \notin DOMAIN tool_runners(v) THEN {Err("KeyError")}
    ELSE IF DOMAIN c.input # tool_runners(v)[c.name] THEN {Err("TypeError")}
    ELSE CASE c = WeatherCall -> {Ok(PyStr("70F, sunny"))}
           [] c = NewsCall    -> {Ok(PyStr("bad earnings today"))}
           [] c = BalanceCall -> {Ok(PyFloat("5020.1"))}

\* client.call_tool(block.name, block.input): the tool host is external, the
\* call returns a result carrying str data or raises
RemoteToolOutcomes(c) == {Ok(PyStr("sunny, 80F")), Err("ToolError")}

ToolOutcomes(v, c) ==
    IF v \in LocalVariants THEN LocalToolOutcomes(v, c) ELSE RemoteToolOutcomes(c)

\* TOOL_ENTITY_UPDATES
TOOL_ENTITY_UPDATES == {"get_city_from_profile"}

\* update_from_profile_input: profile = block.input.get("name"); when it is
\* truthy the next line reads the undefined name profile_name and raises
\* NameError before any upsert; otherwise the function does nothing
UpdaterRaises(c) ==
    c.name \in TOOL_ENTITY_UPDATES /\ Truthy(DictGet(c.input, "name"))

-----------------------------------------------------------------------------
(* The entity stores: EntityMemory of simple-client-memory.py ("memory")   *)
(* and of simplest-client-stocks.py ("stocks").  A Python dict keeps its   *)
(* keys in insertion order, and values() / items() iterate in that order:  *)
(* self.entities is the sequence of its [key, val] items.  A record of the *)
(* "memory" store is read by key only, so it is a function from attribute  *)
(* names to values; a value is a str (PyStr), a list (PyList) or absent.   *)

PyList(l) == [py |-> "list", items |-> l]
PyNone == [py |-> "None"]

\* the keys of a dict, and the dict operations the stores use
DictKeys(d) == {d[i].key : i \in DOMAIN d}
DictIndex(d, k) == CHOOSE i \in DOMAIN d : d[i].key = k
DictValue(d, k) == d[DictIndex(d, k)].val
\* d[k] = v: a key already present keeps its place
DictSet(d, k, v) ==
    IF k \in DictKeys(d) THEN [d EXCEPT ![DictIndex(d, k)].val = v]
    ELSE Append(d, [key |-> k, val |-> v])

\* record[k] = v and record.get(k) on a record
RecordSet(rec, k, v) == [x \in DOMAIN rec \cup {k} |-> IF x = k THEN v ELSE rec[x]]
RecordGet(rec, k) == IF k \in DOMAIN rec THEN rec[k] ELSE PyNone

\* truthiness of a record value
TruthyValue(x) == x # PyNone /\ x # PyStr("") /\ x # PyList(<<>>)

\* sep.join(parts)
RECURSIVE Join(_, _)
Join(parts, sep) ==
    IF parts = <<>> THEN ""
    ELSE IF Len(parts) = 1 THEN parts[1]
    ELSE parts[1] \o sep \o Join(Tail(parts), sep)

\* the characters of a str and s.lower(), on the strings the model draws
Chars(s) ==
    CASE s = "Ana" -> <<"A", "n", "a">>
      [] s = "Bo"  -> <<"B", "o">>
      [] OTHER     -> <<s>>
Lower(s) ==
    CASE s = "Ana" -> "ana"
      [] s = "Bo"  -> "bo"
      [] OTHER     -> s

\* EntityMemory.upsert
upsert(ents, entity_id, key, value) ==
    LET created == IF entity_id \notin DictKeys(ents)
                   THEN DictSet(ents, entity_id, ("id" :> PyStr(entity_id)))
                   ELSE ents
    IN  DictSet(created, entity_id,
                RecordSet(DictValue(created, entity_id), key, value))

\* EntityMemory.add_note raises AttributeError: setdefault returned the value
\* already stored under "notes" and it has no append
add_note_raises(ents, entity_id) ==
    /\ entity_id \in DictKeys(ents)
    /\ RecordGet(DictValue(ents, entity_id), "notes") # PyNone
    /\ RecordGet(DictValue(ents, entity_id), "notes").py # "list"

\* EntityMemory.add_note
add_note(ents, entity_id, note) ==
    IF entity_id \notin DictKeys(ents)
    THEN DictSet(ents, entity_id, ("id" :> PyStr(entity_id) @@ "notes" :> PyList(<<note>>)))
    ELSE IF add_note_raises(ents, entity_id) THEN ents
    ELSE LET rec == DictValue(ents, entity_id)
             old == IF "notes" \in DOMAIN rec THEN rec["notes"].items ELSE <<>>
         IN  DictSet(ents, entity_id, RecordSet(rec, "notes", PyList(Append(old, note))))

\* EntityMemory.hydrate_from_data that starts from an empty dict
RECURSIVE hydrate_from_data_Replace(_, _)
hydrate_from_data_Replace(ents, data) ==
    IF data = <<>> THEN <<>>
    ELSE DictSet(hydrate_from_data_Replace(ents, SubSeq(data, 1, Len(data) - 1)),
                 data[Len(data)]["id"].v, data[Len(data)])

\* EntityMemory.hydrate_from_data
RECURSIVE hydrate_from_data(_, _)
hydrate_from_data(ents, data) ==
    IF data = <<>> THEN ents
    ELSE hydrate_from_data(DictSet(ents, data[1]["id"].v, data[1]), Tail(data))

\* EntityMemory.get (both classes)
get(ents, entity_id) ==
    IF entity_id \in DictKeys(ents) THEN DictValue(ents, entity_id) ELSE PyNone

\* f"{x}" of a record value
FormatValue(x) ==
    IF x.py = "str" THEN x.v
    ELSE "[" \o Join([i \in DOMAIN x.items |-> "'" \o x.items[i] \o "'"], ", ") \o "]"

\* the keys as_prompt_context prints when they are truthy, in this order
PromptKeys == <<"id", "first_name", "last_name", "department", "job_title">>

\* the parts of one entity's line
RECURSIVE KeyParts(_, _)
KeyParts(entity, keys) ==
    IF keys = <<>> THEN <<>>
    ELSE (IF TruthyValue(RecordGet(entity, keys[1]))
          THEN <<keys[1] \o ": " \o FormatValue(entity[keys[1]])>>
          ELSE <<>>) \o KeyParts(entity, Tail(keys))
CityParts(entity) ==
    IF TruthyValue(RecordGet(entity, "locations"))
       /\ Truthy(DictGet(entity["locations"].items[1], "city"))
    THEN <<"city: " \o entity["locations"].items[1]["city"]>>
    ELSE <<>>
NotesParts(entity) ==
    IF TruthyValue(RecordGet(entity, "notes"))
    THEN <<"notes: " \o Join(IF entity["notes"].py = "list" THEN entity["notes"].items
                             ELSE Chars(entity["notes"].v), ", ")>>
    ELSE <<>>
EntityLine(entity) ==
    Join(KeyParts(entity, PromptKeys) \o CityParts(entity) \o NotesParts(entity), ", ")

\* the entity is skipped by the filter
FilteredOut(entity, filter_by_name) ==
    /\ Truthy(filter_by_name)
    /\ Lower(IF "first_name" \in DOMAIN entity THEN entity["first_name"].v ELSE "")
           # Lower(filter_by_name)

RECURSIVE EntityLines(_, _)
EntityLines(ents, filter_by_name) ==
    IF ents = <<>> THEN <<>>
    ELSE (IF FilteredOut(ents[1].val, filter_by_name) THEN <<>>
          ELSE <<EntityLine(ents[1].val)>>) \o EntityLines(Tail(ents), filter_by_name)

\* EntityMemory.as_prompt_context
as_prompt_context(ents, filter_by_name) ==
    Join(<<"Known entities (use id or notes for disambiguation):">>
         \o EntityLines(ents, filter_by_name), "\n")

\* EntityMemory.update of the stocks store: self.entities[key] = value
update(ents, key, value) == DictSet(ents, key, value)

\* EntityMemory.to_text of the stocks store
to_text(ents) == Join([i \in DOMAIN ents |-> ents[i].key \o ": " \o ents[i].val], "\n")

\* str.splitlines() on the texts the model draws; a line is the sequence of
\* its pieces: the marker "ENTITY:", the sign "=", a blank " ", or a run of
\* other characters
splitlines(text) ==
    CASE text = "Fell.\nENTITY:name=Amazon\nENTITY: name = Amzn \nENTITY:eq=a=b\nENTITY:price\n ENTITY:x=y\nENTITY:last=80.11"
            -> << <<"Fell.">>,
                  <<"ENTITY:", "name", "=", "Amazon">>,
                  <<"ENTITY:", " ", "name", " ", "=", " ", "Amzn", " ">>,
                  <<"ENTITY:", "eq", "=", "a", "=", "b">>,
                  <<"ENTITY:", "price">>,
                  <<" ", "ENTITY:", "x", "=", "y">>,
                  <<"ENTITY:", "last", "=", "80.11">> >>
      [] text = "ENTITY:note=see ENTITY:name"
            -> << <<"ENTITY:", "note", "=", "see", " ", "ENTITY:", "name">> >>
      [] OTHER -> << <<text>> >>

\* line.startswith("ENTITY:")
StartsWithEntity(line) == line # <<>> /\ line[1] = "ENTITY:"

\* line.replace("ENTITY:", ""): every occurrence is removed
ReplaceEntity(line) == SelectSeq(line, LAMBDA piece : piece # "ENTITY:")

\* s.split("=", 1): the parts around the first "=", one part when there is none
SplitFirstEq(line) ==
    IF \E i \in DOMAIN line : line[i] = "="
    THEN LET i == CHOOSE j \in DOMAIN line :
                     line[j] = "=" /\ \A k \in 1..(j - 1) : line[k] # "="
         IN  <<SubSeq(line, 1, i - 1), SubSeq(line, i + 1, Len(line))>>
    ELSE <<line>>

\* s.strip(), and the str the pieces spell
RECURSIVE Strip(_)
Strip(line) ==
    IF line = <<>> THEN line
    ELSE IF line[1] = " " THEN Strip(Tail(line))
    ELSE IF line[Len(line)] = " " THEN Strip(SubSeq(line, 1, Len(line) - 1))
    ELSE line
Spell(line) == Join(line, "")

\* a loop body that stores the key of a line without "=" with an empty value
StashLine_KeyOnly(ents, line) ==
    IF StartsWithEntity(line)
    THEN IF Len(SplitFirstEq(ReplaceEntity(line))) = 2
         THEN update(ents, Spell(Strip(SplitFirstEq(ReplaceEntity(line))[1])),
                           Spell(Strip(SplitFirstEq(ReplaceEntity(line))[2])))
         ELSE update(ents, Spell(Strip(ReplaceEntity(line))), "")
    ELSE ents

\* the body of "for line in block.text.splitlines()" for one line: an ENTITY:
\* line is split and stored; the ValueError of unpacking a single part is
\* caught and the line skipped
StashLine(ents, line) ==
    IF StartsWithEntity(line) /\ Len(SplitFirstEq(ReplaceEntity(line))) = 2
    THEN update(ents, Spell(Strip(SplitFirstEq(ReplaceEntity(line))[1])),
                      Spell(Strip(SplitFirstEq(ReplaceEntity(line))[2])))
    ELSE ents

\* the whole for loop over the lines of a text block
RECURSIVE StashEntities(_, _)
StashEntities(ents, lines) ==
    IF lines = <<>> THEN ents
    ELSE StashEntities(StashLine(ents, lines[1]), Tail(lines))

-----------------------------------------------------------------------------
(* The agent loops.                                                        *)

\* the value the while condition compares the counter with
LocalMaxIterations(v, arg) ==
    IF v = "memory" THEN ChatMaxIterations ELSE RunAgentMaxIterations

\* the max_iterations arguments a caller passes: chat_with_memory takes the
\* parameter (default 25; the sessions of the looping provider also try 1),
\* run_agent takes none and the model writes its local constant
MaxIterationsArgs(v, s) ==
    IF v = "memory"
    THEN (IF s = "loop" THEN {1, ChatMaxIterationsDefault}
          ELSE {ChatMaxIterationsDefault})
    ELSE {RunAgentMaxIterations}

\* the conversation each script seeds before its loop
SeedMessages(v) ==
    IF v = "stocks" THEN <<TextTurn("user", SeedInput)>>
    ELSE <<UserStrTurn(SeedInput)>>

\* records of a long-term dataset, as hydrate_from_data reads them
AnaRecord == ("id" :> PyStr("ana1") @@ "first_name" :> PyStr("Ana")
              @@ "locations" :> PyList(<<("city" :> "Boston")>>))
BoRecord == ("id" :> PyStr("bo1") @@ "first_name" :> PyStr("Bo")
             @@ "notes" :> PyList(<<"tall">>))

\* the entity store a session starts with: main() of simple-client-memory.py
\* passes a new EntityMemory, another caller of chat_with_memory may pass one
\* it has hydrated (tried in the sessions of the looping provider);
\* run_agent of simplest-client-stocks.py makes its own
SessionEntities(v, s) ==
    IF v = "memory" /\ s = "loop"
    THEN {<<>>, hydrate_from_data(<<>>, <<AnaRecord>>)}
    ELSE {<<>>}

\* get_messages returning self.messages itself
get_messages_NoCopy(msgs) == [list |-> msgs, same_object |-> TRUE]

\* get_messages: self.messages.copy(), a new list holding the same turns
get_messages(msgs) == [list |-> msgs, same_object |-> FALSE]

\* get_recent_messages: self.messages[-window_size:].  A slice start below 0
\* counts from the end and is clamped at the head of the list; -0 is 0, the
\* head of the list
get_recent_messages(msgs, window_size) ==
    LET start == -window_size
        from  == IF start < 0
                 THEN (IF start + Len(msgs) < 0 THEN 0 ELSE start + Len(msgs))
                 ELSE (IF start > Len(msgs) THEN Len(msgs) ELSE start)
    IN  SubSeq(msgs, from + 1, Len(msgs))

\* the message list passed to messages.create: chat_with_memory inserts the
\* entity context at the head of the list it got from get_messages when the
\* context is truthy
MessagesForProvider(v, msgs, ents) ==
    IF v = "memory" /\ as_prompt_context(ents, None) # ""
    THEN <<UserStrTurn(as_prompt_context(ents, None))>> \o get_messages(msgs).list
    ELSE msgs

\* the stored conversation once the list for the call is assembled: the
\* insert reaches it only if the list it is made on is the stored list itself
StoredAfterAssembly(v, msgs, ents) ==
    IF v = "memory" /\ get_messages(msgs).same_object
    THEN MessagesForProvider(v, msgs, ents)
    ELSE msgs

\* update_from_profile_input on the entity store: when block.input has a
\* truthy "name" the function raises before its first upsert (UpdaterRaises),
\* otherwise its body is skipped; either way the store is left as it was
update_from_profile_input(ents, c, r) == ents

\* an updater that files the result of every tool under the tool's name
EntitiesAfterTool_EveryTool(v, ents, c, r) ==
    IF v = "memory" /\ r.ok THEN upsert(ents, c.name, "city", r.data) ELSE ents

\* tool_updater = TOOL_ENTITY_UPDATES.get(block.name); if tool_updater: ...
\* reached only when call_tool returned (the except branch continues)
EntitiesAfterTool(v, ents, c, r) ==
    IF v = "memory" /\ r.ok /\ c.name \in TOOL_ENTITY_UPDATES
    THEN update_from_profile_input(ents, c, r)
    ELSE ents

\* the texts the provider may emit to each loop
TextsOf(v) ==
    IF v = "stocks"
    THEN { "It is sunny.",
           "Fell.\nENTITY:name=Amazon\nENTITY: name = Amzn \nENTITY:eq=a=b\nENTITY:price\n ENTITY:x=y\nENTITY:last=80.11",
           "ENTITY:note=see ENTITY:name" }
    ELSE {"It is sunny."}

\* provider calls the model lets a session make
CallLimit == IF script = "loop" THEN CallCap ELSE MaxCalls

LoopInit ==
    /\ variant \in {"simplest", "simple", "budget", "stocks", "memory"}
    /\ script \in ProviderScripts
    /\ max_iterations_arg \in MaxIterationsArgs(variant, script)
    /\ max_iterations = LocalMaxIterations(variant, max_iterations_arg)
    /\ iteration = 0
    /\ pc = "call"
    /\ messages = SeedMessages(variant)
    /\ sent = <<>>
    /\ assistant_content = <<>>
    /\ used_tool = FALSE
    /\ nblocks = 0
    /\ stop_reason = None
    /\ exit = "none"
    /\ returned = "unset"
    /\ printed = <<>>
    /\ calls = 0
    /\ blocks_total = 0
    /\ saw_tool_use = FALSE
    /\ tokens = 0
    /\ dispatched = <<>>
    /\ last_result = {}
    /\ provider_error = None
    /\ entities \in SessionEntities(variant, script)
    /\ entities_b = <<>>
    /\ ent_kind = "none"
    /\ ent_log = <<>>

\* no retried call is running
RetryIdle == retry = [fn |-> "none"]

EntIdle ==
    /\ entities = <<>>
    /\ entities_b = <<>>
    /\ ent_kind = "none"
    /\ ent_log = <<>>

StoreIdle ==
    /\ store = <<>>
    /\ view = <<>>
    /\ view_expect = <<>>
    /\ store_expect = <<>>
    /\ aliased = FALSE
    /\ store_kind = "none"
    /\ recent_call = <<>>

\* get_enriched_tools is not running
SchemaIdle ==
    /\ listed = <<>>
    /\ listed_orig = <<>>
    /\ enriched = <<>>
    /\ enrich_pc = "idle"

\* no pair of concurrent sessions is running
PairIdle ==
    /\ sessions = <<>>
    /\ memories = <<>>
    /\ entity_memories = <<>>
    /\ tool_lists = <<>>
    /\ alone = <<>>

Init == LoopInit /\ StoreIdle /\ RetryIdle /\ SchemaIdle /\ PairIdle

\* what a session function returns when it ends without raising
ReturnValue(v) == IF v = "memory" THEN "memory" ELSE None

\* the new value of the loop counter at the top of the body
NextIteration(v, i) ==
    IF v \in {"simple", "budget", "memory"} THEN i + 1 ELSE i

\* while iteration < max_iterations: the body starts and the provider answers
CallProvider ==
    /\ pc = "call"
    /\ iteration < max_iterations
    /\ calls < CallLimit
    \* usage.output_tokens of the response; at most max_tokens
    /\ \E u \in (IF script = "loop" THEN {512, 513} ELSE {1}) :
         tokens' = tokens + u
    /\ iteration' = NextIteration(variant, iteration)
    /\ used_tool' = FALSE
    /\ assistant_content' = <<>>
    /\ sent' = MessagesForProvider(variant, messages, entities)
    /\ calls' = calls + 1
    /\ nblocks' = 0
    /\ saw_tool_use' = FALSE
    /\ stop_reason' = None
    /\ last_result' = {}
    /\ pc' = "blocks"
    /\ messages' = StoredAfterAssembly(variant, messages, entities)
    /\ UNCHANGED <<variant, script, max_iterations_arg, max_iterations,
                   provider_error,
                   exit, returned, printed, blocks_total, dispatched>>
    /\ UNCHANGED storevars
    /\ UNCHANGED entvars
    /\ UNCHANGED retryvars
    /\ UNCHANGED schemavars
    /\ UNCHANGED pairvars

\* the failures messages.create raises: one a retry could cure (rate limit,
\* overload, connection) and one it could not (authentication, bad request)
ProviderFailures == {"transient", "fatal"}

\* messages.create raises: no loop catches it or retries it
ProviderError ==
    /\ pc = "call"
    /\ iteration < max_iterations
    /\ calls < CallLimit
    /\ script = "any"
    /\ iteration' = NextIteration(variant, iteration)
    /\ used_tool' = FALSE
    /\ assistant_content' = <<>>
    /\ sent' = MessagesForProvider(variant, messages, entities)
    /\ calls' = calls + 1
    /\ pc' = "done"
    /\ exit' = "exception"
    /\ provider_error' \in ProviderFailures
    /\ messages' = StoredAfterAssembly(variant, messages, entities)
    /\ UNCHANGED <<variant, script, max_iterations_arg, max_iterations,
                   nblocks, stop_reason, returned, printed, blocks_total,
                   saw_tool_use, tokens, dispatched, last_result>>
    /\ UNCHANGED storevars
    /\ UNCHANGED entvars
    /\ UNCHANGED retryvars
    /\ UNCHANGED schemavars
    /\ UNCHANGED pairvars

\* the while condition is false: the function ends
LoopExit ==
    /\ pc = "call"
    /\ ~(iteration < max_iterations)
    /\ pc' = "done"
    /\ exit' = "iterations"
    /\ returned' = ReturnValue(variant)
    /\ UNCHANGED <<variant, script, max_iterations_arg, max_iterations,
                   provider_error, iteration,
                   messages, sent, assistant_content, used_tool, nblocks,
                   stop_reason, printed, calls, blocks_total, saw_tool_use,
                   tokens, dispatched, last_result>>
    /\ UNCHANGED storevars
    /\ UNCHANGED entvars
    /\ UNCHANGED retryvars
    /\ UNCHANGED schemavars
    /\ UNCHANGED pairvars

\* block.id of the block being handled: the provider numbers its blocks
ToolId == <<calls, nblocks + 1>>

\* the blocks the provider may emit next in the current response
MayEmit == IF script = "loop" THEN nblocks = 0 ELSE blocks_total < MaxBlocks

\* the tool_use blocks the provider may emit, with the tool host's answers
ScriptCalls == IF script = "loop" THEN {LoopCall(variant)} ELSE ProviderCalls(variant)
ScriptOutcomes(c) ==
    IF script = "loop" THEN {r \in ToolOutcomes(variant, c) : r.ok}
    ELSE ToolOutcomes(variant, c)

\* a dispatch that no loop wraps in try/except
ToolErrorPropagates_NoTry(v) == TRUE

\* a failed tool call leaves the loop as an exception: simplest-client.py:79
\* and simplest-client-budget.py:101 call the runner outside any try
ToolErrorPropagates(v) == v \in {"simplest", "budget"}

\* a failed tool call is answered with a tool_result turn:
\* simplest-client-stocks.py:171-175 and simple-client-memory.py:218-220;
\* simple-client.py:80-82 only prints and continues
ToolErrorRecorded(v) == v \in {"stocks", "memory"}

\* the content of the tool_result block each loop writes
ToolResultContent(v, r) ==
    CASE v = "simplest" -> r.data
      [] v = "simple"   -> r.data
      [] v = "budget"   -> <<TextBlock(JsonDumps(r.data))>>
      [] v = "stocks"   ->
            IF r.ok THEN PyStr(JsonDumps(r.data))
            ELSE PyStr(JsonDumps(PyStr("An error occurred: " \o r.error)))
      [] v = "memory"   ->
            IF r.ok THEN r.data ELSE PyStr("error: " \o r.error)

\* the conversation after the tool_use block (id, c) was handled with outcome r
AfterToolUse(v, msgs, id, c, r) ==
    LET withUse == Append(msgs, ToolUseTurn(id, c.name, c.input))
    IN  IF r.ok \/ ToolErrorRecorded(v)
        THEN Append(withUse, ToolResultTurn(id, ToolResultContent(v, r)))
        ELSE withUse

\* the block raises out of the loop
ToolUseRaises(v, c, r) ==
    \/ ~r.ok /\ ToolErrorPropagates(v)
    \/ r.ok /\ v = "memory" /\ UpdaterRaises(c)

\* if block.type == "tool_use": record the request, run the tool, record the
\* result (and, in chat_with_memory, run the entity updater of the tool)
HandleToolUse ==
    /\ pc = "blocks"
    /\ MayEmit
    /\ \E c \in ScriptCalls : \E r \in ScriptOutcomes(c) :
         /\ messages' = AfterToolUse(variant, messages, ToolId, c, r)
         /\ dispatched' = IF r.error = "KeyError" THEN dispatched
                          ELSE Append(dispatched, [call |-> c, response |-> calls])
         /\ pc' = IF ToolUseRaises(variant, c, r) THEN "done" ELSE "blocks"
         /\ exit' = IF ToolUseRaises(variant, c, r) THEN "exception" ELSE exit
         /\ last_result' = {[id |-> ToolId, call |-> c, result |-> r]}
         /\ entities' = EntitiesAfterTool(variant, entities, c, r)
    /\ used_tool' = IF variant = "memory" THEN used_tool ELSE TRUE
    /\ saw_tool_use' = TRUE
    /\ nblocks' = nblocks + 1
    /\ blocks_total' = blocks_total + 1
    /\ UNCHANGED <<variant, script, max_iterations_arg, max_iterations,
                   provider_error, iteration,
                   sent, assistant_content, stop_reason, returned, printed, calls,
                   tokens>>
    /\ UNCHANGED storevars
    /\ UNCHANGED <<entities_b, ent_kind, ent_log>>
    /\ UNCHANGED retryvars
    /\ UNCHANGED schemavars
    /\ UNCHANGED pairvars

\* elif block.type == "text": chat_with_memory buffers the block, the other
\* loops append an assistant turn at once; the stocks loop then stashes the
\* ENTITY: lines of the text in its entity store
HandleText ==
    /\ pc = "blocks"
    /\ MayEmit
    /\ script = "any"
    /\ \E t \in TextsOf(variant) :
         /\ IF variant = "memory"
            THEN /\ assistant_content' = Append(assistant_content, TextBlock(t))
                 /\ UNCHANGED messages
            ELSE /\ messages' = Append(messages, TextTurn("assistant", t))
                 /\ UNCHANGED assistant_content
         /\ entities' = IF variant = "stocks"
                         THEN StashEntities(entities, splitlines(t))
                         ELSE entities
    /\ nblocks' = nblocks + 1
    /\ blocks_total' = blocks_total + 1
    /\ last_result' = {}
    /\ UNCHANGED <<variant, script, max_iterations_arg, max_iterations,
                   provider_error, iteration,
                   pc, sent, used_tool, stop_reason, exit, returned, printed, calls,
                   saw_tool_use, tokens, dispatched>>
    /\ UNCHANGED storevars
    /\ UNCHANGED <<entities_b, ent_kind, ent_log>>
    /\ UNCHANGED retryvars
    /\ UNCHANGED schemavars
    /\ UNCHANGED pairvars

\* a block of any other type: simple-client.py:93-94 and
\* simple-client-memory.py:240-241 print it, the other loops have no branch
HandleOther ==
    /\ pc = "blocks"
    /\ MayEmit
    /\ script = "any"
    /\ nblocks' = nblocks + 1
    /\ blocks_total' = blocks_total + 1
    /\ last_result' = {}
    /\ UNCHANGED <<variant, script, max_iterations_arg, max_iterations,
                   provider_error, iteration,
                   pc, messages, sent, assistant_content, used_tool, stop_reason,
                   exit, returned, printed, calls, saw_tool_use, tokens,
                   dispatched>>
    /\ UNCHANGED storevars
    /\ UNCHANGED entvars
    /\ UNCHANGED retryvars
    /\ UNCHANGED schemavars
    /\ UNCHANGED pairvars

\* the loops that read "end turn" where the provider says "end_turn"
\* (simple-client.py:96)
EndTurnLiteral(v) == IF v = "simple" THEN "end turn" ELSE "end_turn"

\* the exit condition without its "or not used_tool" half
BreaksAfterResponse_StopReasonOnly(v, sr, used) == sr = EndTurnLiteral(v)

\* if response.stop_reason == "end_turn" or not used_tool: break
BreaksAfterResponse(v, sr, used) == sr = EndTurnLiteral(v) \/ ~used

\* chat_with_memory after the blocks: "call" for continue and for the
\* fall-through of the if/elif, "input" when the user is asked
ChatNextStep(sr) == IF sr = "tool_use" THEN "call"
                    ELSE IF sr = "end_turn" THEN "input" ELSE "call"

\* if assistant_content: memory.add_assistant_message(assistant_content)
FlushAssistant(msgs, buffered) ==
    IF buffered # <<>> THEN Append(msgs, AssistantTurn(buffered)) ELSE msgs

\* the for loop over response.content is over: the exit conditions
EndOfResponse ==
    /\ pc = "blocks"
    /\ script = "loop" => nblocks = 1
    /\ \E sr \in (IF script = "loop" THEN {"tool_use"} ELSE StopReasons) :
         /\ stop_reason' = sr
         /\ IF variant = "memory"
            THEN /\ messages' = FlushAssistant(messages, assistant_content)
                 /\ pc' = ChatNextStep(sr)
                 /\ UNCHANGED <<exit, returned>>
            ELSE /\ UNCHANGED messages
                 /\ IF BreaksAfterResponse(variant, sr, used_tool)
                    THEN /\ pc' = "done"
                         /\ exit' = "break"
                         /\ returned' = ReturnValue(variant)
                    ELSE /\ pc' = "call"
                         /\ UNCHANGED <<exit, returned>>
    /\ UNCHANGED <<variant, script, max_iterations_arg, max_iterations,
                   provider_error, iteration,
                   sent, assistant_content, used_tool, nblocks, printed, calls,
                   blocks_total, saw_tool_use, tokens, dispatched, last_result>>
    /\ UNCHANGED storevars
    /\ UNCHANGED entvars
    /\ UNCHANGED retryvars
    /\ UNCHANGED schemavars
    /\ UNCHANGED pairvars

\* user_input = input(...); memory.add_user_message(user_input); the reserved
\* string ends the session
UserInput ==
    /\ pc = "input"
    /\ \E u \in UserInputs :
         /\ messages' = Append(messages, UserStrTurn(u))
         /\ IF StripLower(u) = "end conversation"
            THEN /\ printed' = Append(printed, "User ended conversation")
                 /\ pc' = "done"
                 /\ exit' = "user_ended"
                 /\ returned' = ReturnValue(variant)
            ELSE /\ pc' = "call"
                 /\ UNCHANGED <<printed, exit, returned>>
    /\ UNCHANGED <<variant, script, max_iterations_arg, max_iterations,
                   provider_error, iteration,
                   sent, assistant_content, used_tool, nblocks, stop_reason, calls,
                   blocks_total, saw_tool_use, tokens, dispatched, last_result>>
    /\ UNCHANGED storevars
    /\ UNCHANGED entvars
    /\ UNCHANGED retryvars
    /\ UNCHANGED schemavars
    /\ UNCHANGED pairvars

Next ==
    \/ CallProvider
    \/ ProviderError
    \/ LoopExit
    \/ HandleToolUse
    \/ HandleText
    \/ HandleOther
    \/ EndOfResponse
    \/ UserInput

Spec == Init /\ [][Next]_vars

-----------------------------------------------------------------------------
(* The conversation stores on their own: ConversationMemory of             *)
(* simple-client-memory.py ("memory") and of simplest-client-stocks.py     *)
(* ("stocks"), and ConversationMemorySlidingWindow ("sliding").  A list is *)
(* a Python object: view is the list a caller got from get_messages, and   *)
(* aliased says whether it is the very list the store keeps.               *)

\* the turns one store method call appends, over the arguments the model draws
StoreTurns(k) ==
    CASE k = "memory" ->
            { UserStrTurn("hi"),
              AssistantTurn(<<TextBlock("It is sunny.")>>),
              ToolResultTurn(<<1, 1>>, PyStr("sunny, 80F")) }
      [] k = "stocks" ->
            { TextTurn("user", "hi"),
              TextTurn("assistant", "It is sunny."),
              ToolUseTurn(<<1, 1>>, NewsCall.name, NewsCall.input),
              ToolResultTurn(<<1, 1>>, PyStr(JsonDumps(PyStr("bad earnings today")))) }
      [] k = "sliding" ->
            { UserStrTurn("hi"),
              AssistantTurn(<<TextBlock("It is sunny.")>>),
              [role |-> "user",
               content |-> <<[type |-> "tool_result", tool_id |-> <<1, 1>>,
                              content |-> PyStr("sunny, 80F")]>>] }

\* what a caller puts into a list it was given
CallerTurns == {UserStrTurn("Known entities (use id or notes for disambiguation):")}

LoopIdle ==
    /\ variant = "none"
    /\ script = "none"
    /\ max_iterations_arg = 0
    /\ max_iterations = 0
    /\ iteration = 0
    /\ pc = "idle"
    /\ messages = <<>>
    /\ sent = <<>>
    /\ assistant_content = <<>>
    /\ used_tool = FALSE
    /\ nblocks = 0
    /\ stop_reason = None
    /\ exit = "none"
    /\ returned = "unset"
    /\ printed = <<>>
    /\ calls = 0
    /\ blocks_total = 0
    /\ saw_tool_use = FALSE
    /\ tokens = 0
    /\ dispatched = <<>>
    /\ last_result = {}
    /\ provider_error = None

StoreInit ==
    /\ LoopIdle
    /\ SchemaIdle
    /\ PairIdle
    /\ EntIdle
    /\ RetryIdle
    /\ store_kind \in {"memory", "stocks", "sliding"}
    /\ store = <<>>
    /\ view = <<>>
    /\ view_expect = <<>>
    /\ store_expect = <<>>
    /\ aliased = FALSE
    /\ recent_call = <<>>

\* an add_* method that keeps a window of the newest turn only
StoreAppend_Trim ==
    /\ Len(store) < MaxStore
    /\ \E t \in StoreTurns(store_kind) :
         /\ store' = (IF store = <<>> THEN <<t>> ELSE Append(Tail(store), t))
         /\ store_expect' = Append(store_expect, t)
         /\ view' = IF aliased THEN store' ELSE view
    /\ UNCHANGED <<view_expect, aliased, store_kind, recent_call>>
    /\ UNCHANGED loopvars
    /\ UNCHANGED entvars
    /\ UNCHANGED retryvars
    /\ UNCHANGED schemavars
    /\ UNCHANGED pairvars

\* add_user_message / add_assistant_message / add_tool_result / add_text /
\* add_tool_use: self.messages.append(turn)
StoreAppend ==
    /\ Len(store) < MaxStore
    /\ \E t \in StoreTurns(store_kind) :
         /\ store' = Append(store, t)
         /\ store_expect' = Append(store_expect, t)
         /\ view' = IF aliased THEN store' ELSE view
    /\ UNCHANGED <<view_expect, aliased, store_kind, recent_call>>
    /\ UNCHANGED loopvars
    /\ UNCHANGED entvars
    /\ UNCHANGED retryvars
    /\ UNCHANGED schemavars
    /\ UNCHANGED pairvars

\* a caller asks for the messages
StoreGetMessages ==
    /\ view' = get_messages(store).list
    /\ aliased' = get_messages(store).same_object
    /\ view_expect' = store
    /\ UNCHANGED <<store, store_expect, store_kind, recent_call>>
    /\ UNCHANGED loopvars
    /\ UNCHANGED entvars
    /\ UNCHANGED retryvars
    /\ UNCHANGED schemavars
    /\ UNCHANGED pairvars

\* the caller inserts a turn at the head of the list it holds
\* (messages.insert(0, ...), simple-client-memory.py:173)
ViewInsert ==
    /\ Len(view) < MaxStore + 1
    /\ \E t \in CallerTurns :
         /\ view' = <<t>> \o view
         /\ view_expect' = <<t>> \o view_expect
         /\ store' = IF aliased THEN view' ELSE store
    /\ UNCHANGED <<store_expect, aliased, store_kind, recent_call>>
    /\ UNCHANGED loopvars
    /\ UNCHANGED entvars
    /\ UNCHANGED retryvars
    /\ UNCHANGED schemavars
    /\ UNCHANGED pairvars

\* the caller appends a turn to the list it holds
ViewAppend ==
    /\ Len(view) < MaxStore + 1
    /\ \E t \in CallerTurns :
         /\ view' = Append(view, t)
         /\ view_expect' = Append(view_expect, t)
         /\ store' = IF aliased THEN view' ELSE store
    /\ UNCHANGED <<store_expect, aliased, store_kind, recent_call>>
    /\ UNCHANGED loopvars
    /\ UNCHANGED entvars
    /\ UNCHANGED retryvars
    /\ UNCHANGED schemavars
    /\ UNCHANGED pairvars

\* a caller asks the sliding-window store for its newest turns
StoreGetRecentMessages ==
    /\ store_kind = "sliding"
    /\ \E window_size \in 0..MaxWindow :
         recent_call' = <<[window_size |-> window_size,
                           messages |-> store,
                           returned |-> get_recent_messages(store, window_size)]>>
    /\ UNCHANGED <<store, view, view_expect, store_expect, aliased, store_kind>>
    /\ UNCHANGED loopvars
    /\ UNCHANGED entvars
    /\ UNCHANGED retryvars
    /\ UNCHANGED schemavars
    /\ UNCHANGED pairvars

StoreNext ==
    \/ StoreAppend
    \/ StoreGetMessages
    \/ StoreGetRecentMessages
    \/ ViewInsert
    \/ ViewAppend

SpecStore == StoreInit /\ [][StoreNext]_vars

-----------------------------------------------------------------------------
(* The entity stores on their own.  entities is the store under test;      *)
(* entities_b is a second store of the same class, filled on its own (in   *)
(* the "memory" class by hydrate_from_data only).  ent_log records every    *)
(* method call with its arguments.                                          *)

EntityIds == {"ana1", "bo1"}

EntityInit ==
    /\ LoopIdle
    /\ SchemaIdle
    /\ PairIdle
    /\ StoreIdle
    /\ RetryIdle
    /\ ent_kind \in {"memory", "stocks"}
    /\ entities = <<>>
    /\ entities_b = <<>>
    /\ ent_log = <<>>

Logged(op, target, id, key, value, raised) ==
    [op |-> op, store |-> target, id |-> id, key |-> key, value |-> value,
     raised |-> raised]

\* entity_memory.upsert(e, k, v)
EntUpsert ==
    /\ ent_kind = "memory"
    /\ Len(ent_log) < MaxEntityOps
    \* attribute names passed to upsert: a plain attribute, and the two names
    \* the class itself writes into a record
    /\ \E e \in EntityIds : \E k \in {"first_name", "id", "notes"} :
       \E v \in {"Ana", "Bo"} :
         /\ entities' = upsert(entities, e, k, PyStr(v))
         /\ ent_log' = Append(ent_log, Logged("upsert", "a", e, k, v, FALSE))
    /\ UNCHANGED <<entities_b, ent_kind>>
    /\ UNCHANGED <<loopvars, storevars>>
    /\ UNCHANGED retryvars
    /\ UNCHANGED schemavars
    /\ UNCHANGED pairvars

\* entity_memory.add_note(e, n)
EntAddNote ==
    /\ ent_kind = "memory"
    /\ Len(ent_log) < MaxEntityOps
    /\ \E e \in EntityIds : \E n \in {"tall", "likes tea"} :
         /\ entities' = add_note(entities, e, n)
         /\ ent_log' = Append(ent_log, Logged("add_note", "a", e, "notes", n,
                                              add_note_raises(entities, e)))
    /\ UNCHANGED <<entities_b, ent_kind>>
    /\ UNCHANGED <<loopvars, storevars>>
    /\ UNCHANGED retryvars
    /\ UNCHANGED schemavars
    /\ UNCHANGED pairvars

\* entity_memory.hydrate_from_data(data), on either store
EntHydrate ==
    /\ ent_kind = "memory"
    /\ Len(ent_log) < MaxEntityOps
    /\ \E data \in { <<AnaRecord>>, <<BoRecord>>,
                     <<AnaRecord, BoRecord>>, <<BoRecord, AnaRecord>> } :
       \E target \in {"a", "b"} :
         /\ IF target = "a"
            THEN /\ entities' = hydrate_from_data(entities, data)
                 /\ UNCHANGED entities_b
            ELSE /\ entities_b' = hydrate_from_data(entities_b, data)
                 /\ UNCHANGED entities
         /\ ent_log' = Append(ent_log, Logged("hydrate", target, "", "", data, FALSE))
    /\ UNCHANGED ent_kind
    /\ UNCHANGED <<loopvars, storevars>>
    /\ UNCHANGED retryvars
    /\ UNCHANGED schemavars
    /\ UNCHANGED pairvars

\* entity_memory.update(key, value) of the stocks class, on either store
EntUpdate ==
    /\ ent_kind = "stocks"
    /\ Len(ent_log) < MaxEntityOps
    /\ \E k \in {"name", "price"} : \E v \in {"Amazon", "80.11"} :
       \E target \in {"a", "b"} :
         /\ IF target = "a"
            THEN /\ entities' = update(entities, k, v)
                 /\ UNCHANGED entities_b
            ELSE /\ entities_b' = update(entities_b, k, v)
                 /\ UNCHANGED entities
         /\ ent_log' = Append(ent_log, Logged("update", target, "", k, v, FALSE))
    /\ UNCHANGED ent_kind
    /\ UNCHANGED <<loopvars, storevars>>
    /\ UNCHANGED retryvars
    /\ UNCHANGED schemavars
    /\ UNCHANGED pairvars

EntityNext ==
    \/ EntUpsert
    \/ EntAddNote
    \/ EntHydrate
    \/ EntUpdate

SpecEntity == EntityInit /\ [][EntityNext]_vars

-----------------------------------------------------------------------------
(* The retry helpers of simplest-client-stocks.py: call_with_retries and   *)
(* run_tool_with_retries.  The environment fixes in advance what the n-th  *)
(* attempt yields: "ok", a transient failure or a fatal one.               *)

RetryFunctions == {"call_with_retries", "run_tool_with_retries"}

\* the max_retries each function loops to: the local of call_with_retries, the
\* parameter of run_tool_with_retries (default 3) as callers may pass it
MaxRetriesOf(fn) ==
    IF fn = "call_with_retries" THEN {CallMaxRetries} ELSE {0, 1, ToolMaxRetriesDefault}

\* the module imports random
RandomDefined_Imported == TRUE

\* the global name random is bound when the except clause reads it:
\* simplest-client-stocks.py imports anthropic, asyncio, json and typing only
RandomDefined == FALSE

RetryInit ==
    /\ LoopIdle
    /\ SchemaIdle
    /\ PairIdle
    /\ StoreIdle
    /\ EntIdle
    /\ \E fn \in RetryFunctions : \E m \in MaxRetriesOf(fn) :
       \E o \in [1..MaxOutcomes -> {"ok", "transient", "fatal"}] :
         retry = [fn |-> fn, max_retries |-> m, outcomes |-> o, attempt |-> 0,
                  pc |-> "for", attempts |-> 0, waits |-> 0, caught |-> None,
                  result |-> None, raised |-> None]

\* for attempt in range(max_retries): the next pass starts, or the loop is
\* over and the statement after it runs (raise RuntimeError / return "error")
RetryFor ==
    /\ retry.fn \in RetryFunctions
    /\ retry.pc = "for"
    /\ retry' = IF retry.attempt < retry.max_retries /\ retry.attempt < MaxOutcomes
                THEN [retry EXCEPT !.pc = "try"]
                ELSE IF retry.fn = "call_with_retries"
                THEN [retry EXCEPT !.pc = "done", !.raised = "RuntimeError"]
                ELSE [retry EXCEPT !.pc = "done", !.result = "error"]
    /\ UNCHANGED <<loopvars, storevars, entvars, schemavars, pairvars>>

\* try: return await client.messages.create(**kwargs) / tool_func(**tool_input)
RetryTry ==
    /\ retry.fn \in RetryFunctions
    /\ retry.pc = "try"
    /\ retry' = IF retry.outcomes[retry.attempt + 1] = "ok"
                THEN [retry EXCEPT !.pc = "done", !.attempts = @ + 1,
                                   !.result = "result of attempt"]
                ELSE [retry EXCEPT !.pc = "except", !.attempts = @ + 1,
                                   !.caught = retry.outcomes[retry.attempt + 1]]
    /\ UNCHANGED <<loopvars, storevars, entvars, schemavars, pairvars>>

\* except Exception as e: wait = base_delay * 2**attempt + random.random();
\* print; await asyncio.sleep(wait).  Reading the unbound name random raises
\* NameError out of the handler
RetryExcept ==
    /\ retry.fn \in RetryFunctions
    /\ retry.pc = "except"
    /\ retry' = IF RandomDefined
                THEN [retry EXCEPT !.pc = "for", !.waits = @ + 1, !.attempt = @ + 1]
                ELSE [retry EXCEPT !.pc = "done", !.raised = "NameError"]
    /\ UNCHANGED <<loopvars, storevars, entvars, schemavars, pairvars>>

RetryNext ==
    \/ RetryFor
    \/ RetryTry
    \/ RetryExcept

SpecRetry == RetryInit /\ [][RetryNext]_vars

-----------------------------------------------------------------------------
(* Schema enrichment of simple-client-memory.py: get_enriched_tools and     *)
(* enrich_tool_schema.  A tool is [name, inputSchema]; inputSchema is a     *)
(* dict that holds "properties" (field name -> dict of the field) or, when  *)
(* the tool host sent none, only "type".  The tool objects are mutated in   *)
(* place: listed holds them as they are now.                                *)

MaxTools == 2

\* model_class.model_json_schema()["properties"] reduced to the key the
\* function reads, for the two classes of simple_weather_agent/models.py
model_json_schema(model_class) ==
    CASE model_class = "CityInput" ->
            ("city" :> [description |-> "City name for weather lookup"])
      [] model_class = "ProfileInput" ->
            ("profile" :> [description |-> "User profile (e.g., 'brian')"])

\* tool_model_map
tool_model_map ==
    ("get_city_from_profile" :> "ProfileInput"
     @@ "get_weather_from_city" :> "CityInput")

\* the dict of one field as the host sends it, with or without a description
PropMetas == { [type |-> "string"],
               [type |-> "string", description |-> "from the host"] }

\* the tools a host may list: the two tools of the map and one without entry,
\* each with a properties map over the fields "profile" and "city" or with
\* an inputSchema that has no "properties"
ListedTools ==
    LET names == {"get_city_from_profile", "get_weather_from_city", "get_time"}
        maps == UNION { [fs -> PropMetas] : fs \in SUBSET {"profile", "city"} }
        schemas == {[properties |-> ps] : ps \in maps} \cup {[type |-> "object"]}
    IN  {[name |-> n, inputSchema |-> sc] : n \in names, sc \in schemas}

\* model_schema["properties"].get(prop_name, {}).get("description")
PydDesc(model_schema, prop_name) ==
    IF prop_name \in DOMAIN model_schema
       /\ "description" \in DOMAIN model_schema[prop_name]
    THEN model_schema[prop_name].description
    ELSE None

\* an enrichment that replaces the dict of a described field by the model's
enrich_tool_schema_Replace(tool, model_class) ==
    LET model_schema == model_json_schema(model_class)
        props == tool.inputSchema.properties
    IN  [tool EXCEPT !.inputSchema.properties =
            [f \in DOMAIN props |->
                IF PydDesc(model_schema, f) \notin {None, ""}
                THEN model_schema[f]
                ELSE props[f]]]

\* enrich_tool_schema where tool.inputSchema["properties"] does not raise: for
\* each property of the tool, if pyd_desc: prop_meta["description"] = pyd_desc
enrich_tool_schema(tool, model_class) ==
    LET model_schema == model_json_schema(model_class)
        props == tool.inputSchema.properties
    IN  [tool EXCEPT !.inputSchema.properties =
            [f \in DOMAIN props |->
                IF PydDesc(model_schema, f) \notin {None, ""}
                THEN [k \in DOMAIN props[f] \cup {"description"} |->
                        IF k = "description" THEN PydDesc(model_schema, f)
                        ELSE props[f][k]]
                ELSE props[f]]]

SchemaInit ==
    /\ LoopIdle
    /\ StoreIdle
    /\ EntIdle
    /\ RetryIdle
    /\ PairIdle
    /\ listed = <<>>
    /\ listed_orig = <<>>
    /\ enriched = <<>>
    /\ enrich_pc = "start"

\* tools = await client.list_tools(); enriched = []
ListTools ==
    /\ enrich_pc = "start"
    /\ \E n \in 0..MaxTools : \E ts \in [1..n -> ListedTools] :
         /\ listed' = ts
         /\ listed_orig' = ts
    /\ enriched' = <<>>
    /\ enrich_pc' = "loop"
    /\ UNCHANGED <<loopvars, storevars, entvars, retryvars, pairvars>>

\* one pass of "for tool in tools": enrich the tool if the map has a class
\* for its name, then append it; tool.inputSchema["properties"] raises
\* KeyError when the key is missing, and get_enriched_tools has no try
EnrichTool ==
    /\ enrich_pc = "loop"
    /\ Len(enriched) < Len(listed)
    /\ LET i == Len(enriched) + 1
           tool == listed[i]
       IN  IF tool.name \in DOMAIN tool_model_map
           THEN IF "properties" \notin DOMAIN tool.inputSchema
                THEN /\ enrich_pc' = "raised"
                     /\ UNCHANGED <<listed, enriched>>
                ELSE /\ listed' = [listed EXCEPT ![i] =
                            enrich_tool_schema(tool, tool_model_map[tool.name])]
                     /\ enriched' = Append(enriched, listed'[i])
                     /\ UNCHANGED enrich_pc
           ELSE /\ enriched' = Append(enriched, tool)
                /\ UNCHANGED <<listed, enrich_pc>>
    /\ UNCHANGED listed_orig
    /\ UNCHANGED <<loopvars, storevars, entvars, retryvars, pairvars>>

\* the for loop is over: return enriched
EnrichReturn ==
    /\ enrich_pc = "loop"
    /\ Len(enriched) = Len(listed)
    /\ enrich_pc' = "returned"
    /\ UNCHANGED <<listed, listed_orig, enriched>>
    /\ UNCHANGED <<loopvars, storevars, entvars, retryvars, pairvars>>

SchemaNext ==
    \/ ListTools
    \/ EnrichTool
    \/ EnrichReturn

SpecSchema == SchemaInit /\ [][SchemaNext]_vars

-----------------------------------------------------------------------------
(* Two sessions in one process.  main() of simple-client-memory.py and      *)
(* run_agent of simplest-client-stocks.py are coroutines: two of them on    *)
(* one event loop interleave where they await the provider or a tool.  The  *)
(* objects a session works on live in the heap (memories, entity_memories,  *)
(* tool_lists) under the id of the session that constructed them; its       *)
(* locals are in sessions.  A step of a session runs it for at most one     *)
(* await.  alone replays each session on its own copy of everything, fed    *)
(* with the same provider, tool and user inputs.                            *)

PairSteps == 4

SessionIds == {1, 2}

\* objects constructed once for the whole process
OwnerOf_ProcessWide(i) == 1

\* the heap id of the objects session i works on.  Each session constructs
\* its own: memory = ConversationMemory(), entity_memory = EntityMemory() and
\* enriched = await get_enriched_tools(client) in main()
\* (simple-client-memory.py:271, 292, 293); convo_memory, entity_memory and
\* the tools literal in run_agent (simplest-client-stocks.py:67, 113, 114)
OwnerOf(i) == i

\* what list_tools() may answer a session that starts
PairListings ==
    { <<[name |-> "get_weather_from_city",
         inputSchema |-> [properties |-> ("city" :> m)]]>> : m \in PropMetas }

\* get_enriched_tools on a list whose tools all have a properties map
EnrichAll(ts) ==
    [i \in 1..Len(ts) |->
        IF ts[i].name \in DOMAIN tool_model_map
        THEN enrich_tool_schema(ts[i], tool_model_map[ts[i].name])
        ELSE ts[i]]

\* what the environment may hand to a session in its next step
SessionInputs(l) ==
    CASE l.pc = "start" ->
            {[kind |-> "start", listed |-> ts] : ts \in PairListings}
      [] l.pc = "call" -> {[kind |-> "response"], [kind |-> "provider_error"]}
      [] l.pc = "blocks" ->
            UNION { {[kind |-> "tool_use", call |-> c, result |-> r] :
                        r \in ToolOutcomes(l.variant, c)} :
                    c \in ProviderCalls(l.variant) }
            \cup {[kind |-> "text", text |-> t] : t \in TextsOf(l.variant)}
            \cup {[kind |-> "end", stop_reason |-> sr, user_input |-> u] :
                        sr \in StopReasons,
                        u \in IF l.variant = "memory" THEN UserInputs ELSE {""}}
      [] OTHER -> {}

\* the session after the start of main() / run_agent: its objects constructed,
\* the first user message stored; the tool list is the enriched answer of
\* list_tools() or the tools literal of run_agent (one tool of it shown)
AfterStart(l, inp) ==
    [l |-> [l EXCEPT !.pc = "call"],
     msgs |-> SeedMessages(l.variant),
     es |-> <<>>,
     tl |-> IF l.variant = "memory" THEN EnrichAll(inp.listed)
            ELSE <<[name |-> "get_latest_stock_news",
                    inputSchema |-> [properties |-> ("ticker_name" :>
                        [type |-> "string",
                         description |-> "news information related to the stock ticker value e.g. big drop in price today"])]]>>]

\* the top of the while loop up to the answer of messages.create
AfterCall(l, msgs, es, tl, inp) ==
    IF ~(l.iteration < l.max_iterations)
    THEN [l |-> [l EXCEPT !.pc = "done", !.exit = "iterations"],
          msgs |-> msgs, es |-> es, tl |-> tl]
    ELSE [l |-> [l EXCEPT !.iteration = NextIteration(l.variant, @),
                          !.used_tool = FALSE,
                          !.assistant_content = <<>>,
                          !.sent = MessagesForProvider(l.variant, msgs, es),
                          !.sent_tools = tl,
                          !.calls = @ + 1,
                          !.nblocks = 0,
                          !.pc = IF inp.kind = "provider_error"
                                 THEN "done" ELSE "blocks",
                          !.exit = IF inp.kind = "provider_error"
                                   THEN "exception" ELSE @],
          msgs |-> StoredAfterAssembly(l.variant, msgs, es),
          es |-> es, tl |-> tl]

\* one block of the response handled: a tool_use block (with the await of the
\* tool inside) or a text block
AfterBlock(l, msgs, es, tl, inp) ==
    IF inp.kind = "tool_use"
    THEN [l |-> [l EXCEPT !.nblocks = @ + 1,
                          !.used_tool = IF l.variant = "memory" THEN @ ELSE TRUE,
                          !.pc = IF ToolUseRaises(l.variant, inp.call, inp.result)
                                 THEN "done" ELSE @,
                          !.exit = IF ToolUseRaises(l.variant, inp.call, inp.result)
                                   THEN "exception" ELSE @],
          msgs |-> AfterToolUse(l.variant, msgs, <<l.calls, l.nblocks + 1>>,
                                inp.call, inp.result),
          es |-> EntitiesAfterTool(l.variant, es, inp.call, inp.result),
          tl |-> tl]
    ELSE [l |-> [l EXCEPT !.nblocks = @ + 1,
                          !.assistant_content =
                              IF l.variant = "memory"
                              THEN Append(@, TextBlock(inp.text)) ELSE @],
          msgs |-> IF l.variant = "memory" THEN msgs
                   ELSE Append(msgs, TextTurn("assistant", inp.text)),
          es |-> IF l.variant = "stocks"
                 THEN StashEntities(es, splitlines(inp.text)) ELSE es,
          tl |-> tl]

\* the exit conditions after the blocks; input() of chat_with_memory blocks
\* the event loop, so the user's line belongs to the same step
AfterResponse(l, msgs, es, tl, inp) ==
    IF l.variant = "memory"
    THEN LET flushed == FlushAssistant(msgs, l.assistant_content)
             asks == ChatNextStep(inp.stop_reason) = "input"
             ended == asks /\ StripLower(inp.user_input) = "end conversation"
         IN  [l |-> [l EXCEPT !.pc = IF ended THEN "done" ELSE "call",
                              !.exit = IF ended THEN "user_ended" ELSE @],
              msgs |-> IF asks THEN Append(flushed, UserStrTurn(inp.user_input))
                       ELSE flushed,
              es |-> es, tl |-> tl]
    ELSE LET breaks == BreaksAfterResponse(l.variant, inp.stop_reason, l.used_tool)
         IN  [l |-> [l EXCEPT !.pc = IF breaks THEN "done" ELSE "call",
                              !.exit = IF breaks THEN "break" ELSE @],
              msgs |-> msgs, es |-> es, tl |-> tl]

\* a session run from one await to the next on the objects it is given
SessionStep(l, msgs, es, tl, inp) ==
    LET after ==
          CASE inp.kind = "start" /\ l.pc = "start" -> AfterStart(l, inp)
            [] inp.kind \in {"response", "provider_error"} /\ l.pc = "call" ->
                    AfterCall(l, msgs, es, tl, inp)
            [] inp.kind \in {"tool_use", "text"} /\ l.pc = "blocks" ->
                    AfterBlock(l, msgs, es, tl, inp)
            [] inp.kind = "end" /\ l.pc = "blocks" ->
                    AfterResponse(l, msgs, es, tl, inp)
            [] OTHER -> [l |-> l, msgs |-> msgs, es |-> es, tl |-> tl]
    IN  [after EXCEPT !.l.steps = @ + 1]

PairInit ==
    /\ LoopIdle
    /\ StoreIdle
    /\ EntIdle
    /\ RetryIdle
    /\ SchemaIdle
    /\ sessions \in [SessionIds ->
          {[variant |-> v, pc |-> "start", iteration |-> 0,
            max_iterations |-> LocalMaxIterations(v, ChatMaxIterationsDefault),
            assistant_content |-> <<>>, used_tool |-> FALSE, nblocks |-> 0,
            calls |-> 0, steps |-> 0, sent |-> <<>>, sent_tools |-> <<>>,
            exit |-> "none"] : v \in {"memory", "stocks"}}]
    /\ memories = [o \in SessionIds |-> <<>>]
    /\ entity_memories = [o \in SessionIds |-> <<>>]
    /\ tool_lists = [o \in SessionIds |-> <<>>]
    /\ alone = [i \in SessionIds |->
                   [l |-> sessions[i], msgs |-> <<>>, es |-> <<>>, tl |-> <<>>]]

\* session i takes a step of the given kinds on its objects in the heap, and
\* its replay takes the same step on its own copies
SessionRuns(i, kinds) ==
    /\ sessions[i].steps < PairSteps
    /\ \E inp \in {x \in SessionInputs(sessions[i]) : x.kind \in kinds} :
         \A now \in {SessionStep(sessions[i], memories[OwnerOf(i)],
                                 entity_memories[OwnerOf(i)],
                                 tool_lists[OwnerOf(i)], inp)} :
           /\ sessions' = [sessions EXCEPT ![i] = now.l]
           /\ memories' = [memories EXCEPT ![OwnerOf(i)] = now.msgs]
           /\ entity_memories' =
                  [entity_memories EXCEPT ![OwnerOf(i)] = now.es]
           /\ tool_lists' = [tool_lists EXCEPT ![OwnerOf(i)] = now.tl]
           /\ alone' = [alone EXCEPT ![i] =
                  SessionStep(alone[i].l, alone[i].msgs, alone[i].es,
                              alone[i].tl, inp)]
    /\ UNCHANGED <<loopvars, storevars, entvars, retryvars, schemavars>>

SessionStart == \E i \in SessionIds : SessionRuns(i, {"start"})
SessionCall == \E i \in SessionIds : SessionRuns(i, {"response", "provider_error"})
SessionBlock == \E i \in SessionIds : SessionRuns(i, {"tool_use", "text"})
SessionEnd == \E i \in SessionIds : SessionRuns(i, {"end"})

PairNext ==
    \/ SessionStart
    \/ SessionCall
    \/ SessionBlock
    \/ SessionEnd

SpecPair == PairInit /\ [][PairNext]_vars

-----------------------------------------------------------------------------
(* Properties.                                                             *)

IsToolUseTurn(t) == t.role = "assistant" /\ t.content[1].type = "tool_use"
IsToolResultTurn(t) == t.role = "user" /\ t.content[1].type = "tool_result"
IsToolResultFor(t, id) == IsToolResultTurn(t) /\ t.content[1].tool_use_id = id

\* every tool_use turn of msgs is immediately followed by a tool_result turn of
\* the same id, and no other turn is a tool_result of that id
Paired(msgs) ==
    \A i \in 1..Len(msgs) :
        IsToolUseTurn(msgs[i]) =>
            /\ i < Len(msgs)
            /\ IsToolResultFor(msgs[i + 1], msgs[i].content[1].id)
            /\ \A j \in 1..Len(msgs) :
                   IsToolResultFor(msgs[j], msgs[i].content[1].id) => j = i + 1

\* C1: whenever a loop is about to issue a provider call or has terminated,
\* each tool_use turn of the conversation is immediately followed by exactly
\* one tool_result turn carrying the same id, also when the tool failed.
C1_ToolUsePaired == pc \in {"call", "done"} => Paired(messages)

\* C2: when the tool executor fails on a dispatched tool_use, no exception
\* leaves the loop: the loop is still handling the response and the last turn
\* is a tool_result turn of the same id whose content carries the error text.
C2_ToolFailureRecorded ==
    \A x \in last_result :
        ~x.result.ok =>
            /\ exit # "exception"
            /\ pc = "blocks"
            /\ IsToolResultFor(messages[Len(messages)], x.id)
            /\ messages[Len(messages)].content[1].content
                   \in { PyStr("error: " \o x.result.error),
                         PyStr(JsonDumps(PyStr("An error occurred: " \o x.result.error))) }

\* C3: a chat_with_memory session called with max_iterations = 1 makes exactly
\* one provider call: never a second one, and it has made one when it ends.
C3_OneIterationOneCall ==
    (variant = "memory" /\ max_iterations_arg = 1) =>
        /\ calls <= 1
        /\ (pc = "done" => calls = 1)

\* C4: no loop variant makes more provider calls in a session than its
\* max_iterations (20, or 30 in chat_with_memory).
C4_CallsBoundedByMaxIterations ==
    calls <= (IF variant = "memory" THEN ChatMaxIterations ELSE RunAgentMaxIterations)

\* C5: when the response has stop reason end_turn and held no tool_use block,
\* the step that reads the stop reason ends a non-interactive loop and moves
\* chat_with_memory to awaiting user input; it makes no provider call.
C5_EndTurnStopsOrAwaitsUser ==
    [][ (pc = "blocks" /\ stop_reason' = "end_turn" /\ ~saw_tool_use)
            => /\ calls' = calls
               /\ pc' = (IF variant = "memory" THEN "input" ELSE "done") ]_vars

\* a simple-client.py session whose only response was text with end_turn ended
C5_Witness ==
    /\ variant = "simple"
    /\ stop_reason = "end_turn"
    /\ ~saw_tool_use
    /\ nblocks = 1
    /\ pc = "done"
    /\ exit = "break"

\* C6 (the loops the claim is drawn from: chat_with_memory and the run_agent
\* of simplest-client.py): after a first response that held a single tool_use
\* block whose tool call succeeded with data d, and whose stop reason is
\* tool_use, the conversation is exactly the seeded user turn, the tool_use
\* turn and the tool_result turn of the same id with content d, and the loop
\* is about to make another provider call.
C6_ScenarioA ==
    \A x \in last_result :
        ( /\ variant \in {"memory", "simplest"}
          /\ calls = 1
          /\ nblocks = 1
          /\ x.result.ok
          /\ (stop_reason = "tool_use" \/ exit = "exception") )
        => /\ messages = SeedMessages(variant)
                           \o << ToolUseTurn(x.id, x.call.name, x.call.input),
                                 ToolResultTurn(x.id, x.result.data) >>
           /\ pc = "call"
           /\ iteration < max_iterations

\* call c was handed to the tool executor for response number n
DispatchedIn(c, n) ==
    \E i \in 1..Len(dispatched) :
        dispatched[i].call = c /\ dispatched[i].response = n

\* C7: with the repeat threshold 2, when the provider requests the identical
\* tool call (same name, same input) in three consecutive responses, the third
\* is not handed to the tool executor.
C7_ThirdIdenticalCallNotDispatched ==
    \A i \in 1..Len(dispatched) :
        LET c == dispatched[i].call
            n == dispatched[i].response
        IN  ~(DispatchedIn(c, n - 1) /\ DispatchedIn(c, n - 2))

\* C8: once the cumulative reported output-token usage of a chat_with_memory
\* session exceeds the budget of 1024, no further provider call is made.
C8_NoCallAfterTokenBudget ==
    [][ (variant = "memory" /\ tokens > MaxTokens) => calls' = calls ]_vars

\* the termination reason a finished session reports: the only termination
\* message any loop emits, if it emitted one
ReportedReason == IF printed # <<>> THEN printed[Len(printed)] ELSE None

\* C9: every session that has ended returned its final conversation together
\* with an explicit termination reason (stated for the sessions that ended by
\* returning; one that ended by raising returns nothing at all).
C9_TerminationCarriesReason ==
    (pc = "done" /\ exit # "exception")
        => (returned = "memory" /\ ReportedReason # None)

\* C10: the list a caller got from get_messages holds what it held when it was
\* returned, changed only by the caller's own inserts and appends, whatever was
\* appended to the store afterwards; and the store holds exactly what its own
\* methods appended, whatever the caller did to the returned list.
C10_CopyIsolation == view = view_expect /\ store = store_expect

\* a list was returned when the store held one turn; since then the store got a
\* second turn and the caller inserted a turn at the head of its list
C10_Witness ==
    /\ Len(store) = 2
    /\ Len(view) = 2
    /\ view[1] \in CallerTurns
    /\ view[2] = store[1]

\* s is a prefix of t
IsPrefix(s, t) == Len(s) <= Len(t) /\ SubSeq(t, 1, Len(s)) = s

\* C11: the conversation store is append-only: over every store operation and
\* every loop step the previous sequence of turns is a prefix of the new one
\* (no turn is removed, replaced or reordered, the length never decreases).
C11_AppendOnly ==
    [][IsPrefix(store, store') /\ IsPrefix(messages, messages')]_vars

\* the store got two turns, the second after a caller took the list and put a
\* turn of its own at its head
C11_Witness ==
    /\ Len(store) >= 2
    /\ Len(view) = Len(store)
    /\ view[1] \in CallerTurns
    /\ store[1] \notin CallerTurns

\* C12: as_prompt_context returns the empty string when the store holds no
\* entity, and chat_with_memory then sends the provider exactly the stored
\* conversation, with no context turn before it.
C12_EmptyStoreNoContext ==
    (variant = "memory" /\ pc = "blocks" /\ nblocks = 0 /\ entities = <<>>)
        => /\ as_prompt_context(entities, None) = ""
           /\ sent = messages

\* the two stores hold the same entities with the same attributes
SameEntities(a, b) ==
    /\ DictKeys(a) = DictKeys(b)
    /\ \A k \in DictKeys(a) : DictValue(a, k) = DictValue(b, k)

\* C13: two entity stores that hold the same entities with the same
\* attributes, built by different insertion orders, render the same prompt
\* context (as_prompt_context, and to_text in the stocks class).
C13_RenderingIgnoresInsertionOrder ==
    SameEntities(entities, entities_b)
        => IF ent_kind = "stocks"
           THEN to_text(entities) = to_text(entities_b)
           ELSE as_prompt_context(entities, None) = as_prompt_context(entities_b, None)

\* the synthetic turn chat_with_memory builds from the entity context
ContextTurn(ents) == UserStrTurn(as_prompt_context(ents, None))
IsContextTurn(t, ents) == t = ContextTurn(ents)

\* C14: in chat_with_memory the entity-context turn is put at the head of the
\* message list of a provider call at most once per call and is never
\* persisted: a provider call leaves the stored conversation as it was, what
\* is sent is the stored conversation behind at most one context turn, and no
\* stored turn is a context turn.
C14_ContextTurnNotPersisted ==
    [][ variant = "memory" =>
          \A before \in {ContextTurn(entities)} : \A after \in {ContextTurn(entities')} :
            /\ (calls' # calls =>
                  /\ messages' = messages
                  /\ sent' \in {messages, <<before>> \o messages}
                  /\ \A i \in DOMAIN sent' : sent'[i] = before => i = 1)
            /\ \A i \in DOMAIN messages' : messages'[i] # after ]_vars

\* a second provider call of a session whose entity store holds an entity: the
\* context turn heads the list sent, and the store is one turn shorter
C14_Witness ==
    /\ variant = "memory"
    /\ entities # <<>>
    /\ calls = 2
    /\ pc = "blocks"
    /\ nblocks = 0
    /\ IsContextTurn(sent[1], entities)
    /\ Len(sent) = Len(messages) + 1

\* the method call the step has just logged, if it logged one
JustLogged(op) ==
    /\ Len(ent_log') = Len(ent_log) + 1
    /\ ent_log'[Len(ent_log')].op = op

\* C15: upsert(e, k, v) on an absent entity creates a record with id e and
\* attribute k = v; on an existing entity it sets k to v and leaves the other
\* attributes of that entity alone; every other entity stays as it was.
C15_Upsert ==
    [][ JustLogged("upsert") =>
          LET o == ent_log'[Len(ent_log')]
              rec == DictValue(entities', o.id)
          IN  /\ DictKeys(entities') = DictKeys(entities) \cup {o.id}
              /\ RecordGet(rec, o.key) = PyStr(o.value)
              /\ IF o.id \in DictKeys(entities)
                 THEN /\ DOMAIN rec = DOMAIN DictValue(entities, o.id) \cup {o.key}
                      /\ \A a \in DOMAIN DictValue(entities, o.id) \ {o.key} :
                             rec[a] = DictValue(entities, o.id)[a]
                 ELSE /\ DOMAIN rec = {"id", o.key}
                      /\ RecordGet(rec, "id") = PyStr(o.id)
              /\ \A e \in DictKeys(entities) \ {o.id} :
                     DictValue(entities', e) = DictValue(entities, e) ]_vars

\* the notes passed to add_note for entity e, in call order
NotesAdded(e) ==
    LET sel == SelectSeq(ent_log, LAMBDA o : o.op = "add_note" /\ o.id = e)
    IN  [i \in DOMAIN sel |-> sel[i].value]

\* only add_note and upsert were called
OnlyNotesAndUpserts == \A i \in DOMAIN ent_log : ent_log[i].op \in {"add_note", "upsert"}

\* C16: after any sequence of add_note and upsert calls, no call has raised,
\* every entity a note was added for exists, and the note list of each entity
\* is exactly the notes added for it, in call order.
C16_NotesInCallOrder ==
    (ent_kind = "memory" /\ OnlyNotesAndUpserts) =>
        /\ \A i \in DOMAIN ent_log : ~ent_log[i].raised
        /\ \A e \in EntityIds :
             IF NotesAdded(e) # <<>>
             THEN /\ e \in DictKeys(entities)
                  /\ RecordGet(DictValue(entities, e), "notes") = PyList(NotesAdded(e))
             ELSE e \in DictKeys(entities) =>
                      RecordGet(DictValue(entities, e), "notes") \in {PyNone, PyList(<<>>)}

\* C17: entity records are never deleted: over every entity store operation
\* and every loop step, the set of entity keys of a store contains every key
\* it contained before.
C17_KeysNeverDeleted ==
    [][ /\ DictKeys(entities) \subseteq DictKeys(entities')
        /\ DictKeys(entities_b) \subseteq DictKeys(entities_b') ]_vars

\* a store that got an entity from upsert or add_note was then hydrated with a
\* dataset, and holds both entities
C17_Witness ==
    /\ Len(ent_log) >= 2
    /\ ent_log[1].op \in {"upsert", "add_note"}
    /\ ent_log[Len(ent_log)].op = "hydrate"
    /\ ent_log[Len(ent_log)].store = "a"
    /\ ent_log[1].id \notin {ent_log[Len(ent_log)].value[i]["id"].v :
                                i \in DOMAIN ent_log[Len(ent_log)].value}
    /\ DictKeys(entities) = EntityIds

\* an ENTITY: line as the stocks prompt defines it: the marker first, and an
\* "=" somewhere after it
IsEntityLine(line) ==
    /\ line # <<>>
    /\ line[1] = "ENTITY:"
    /\ \E i \in DOMAIN line : line[i] = "="

\* the place of the first "=" of a line that has one
FirstEq(line) ==
    CHOOSE i \in DOMAIN line : line[i] = "=" /\ \A j \in 1..(i - 1) : line[j] # "="

\* the trimmed text between the marker and the first "=", and after it
LineKey(line) == Spell(Strip(SubSeq(line, 2, FirstEq(line) - 1)))
LineValue(line) == Spell(Strip(SubSeq(line, FirstEq(line) + 1, Len(line))))

\* the step appended an assistant text turn in the stocks loop
StocksTextStep ==
    /\ variant = "stocks"
    /\ Len(messages') = Len(messages) + 1
    /\ messages'[Len(messages')].role = "assistant"
    /\ messages'[Len(messages')].content[1].type = "text"

\* C18: when the stocks loop processes a text block, every key named by an
\* ENTITY: line with an "=" maps afterwards to the trimmed text after the first
\* "=" of the last such line for that key, and every other key of the entity
\* store is as it was (lines without the marker at their start change nothing).
C18_EntityLinesStored ==
    [][ StocksTextStep =>
          LET lines == splitlines(messages'[Len(messages')].content[1].text)
              marked == {i \in DOMAIN lines : IsEntityLine(lines[i])}
              named == {LineKey(lines[i]) : i \in marked}
          IN  /\ \A i \in marked :
                    (\A j \in marked : j > i => LineKey(lines[j]) # LineKey(lines[i]))
                        => /\ LineKey(lines[i]) \in DictKeys(entities')
                           /\ DictValue(entities', LineKey(lines[i])) = LineValue(lines[i])
              /\ DictKeys(entities') = DictKeys(entities) \cup named
              /\ \A k \in DictKeys(entities) \ named :
                    DictValue(entities', k) = DictValue(entities, k) ]_vars

\* the first attempt the environment lets succeed, 0 when there is none among
\* the first n
FirstOk(o, n) ==
    IF \E i \in 1..n : o[i] = "ok"
    THEN CHOOSE i \in 1..n : o[i] = "ok" /\ \A j \in 1..(i - 1) : o[j] # "ok"
    ELSE 0

\* C19: call_with_retries makes at most 5 attempts; when one of the first 5
\* attempts can succeed it returns the result of the first that does, having
\* made no attempt after it; when all 5 fail it ends with a failure raised to
\* its caller.
C19_AtMostFiveAttempts ==
    retry.fn = "call_with_retries" =>
        /\ retry.attempts <= CallMaxRetries
        /\ retry.pc = "done" =>
             IF FirstOk(retry.outcomes, CallMaxRetries) # 0
             THEN /\ retry.result = "result of attempt"
                  /\ retry.raised = None
                  /\ retry.attempts = FirstOk(retry.outcomes, CallMaxRetries)
             ELSE /\ retry.raised # None
                  /\ retry.result = None

\* C20: the retry layer retries only transient failures: when an attempt of
\* either helper fails fatally, that failure is what the caller gets, after
\* that single attempt, with no retry and no backoff wait.
C20_FatalNotRetried ==
    (retry.fn \in RetryFunctions /\ retry.pc = "done" /\ retry.outcomes[1] = "fatal"
        /\ retry.max_retries > 0)
        => /\ retry.attempts = 1
           /\ retry.waits = 0
           /\ retry.caught = "fatal"
           /\ retry.raised \notin {None, "NameError"}


-----------------------------------------------------------------------------
(* Provider failures and the retry layer.                                  *)

\* C21: a transient failure of a provider call (rate limit, overload,
\* connection) is retried and never ends the session: no session stands
\* terminated by an exception after a transient provider failure.
C21_TransientProviderFailureSurvives ==
    provider_error = "transient" => ~(pc = "done" /\ exit = "exception")


-----------------------------------------------------------------------------
(* The interactive loop's reserved input.                                  *)

\* the user turn a step appended to the conversation, if it appended one
InputTaken ==
    /\ pc = "input"
    /\ Len(messages') = Len(messages) + 1

\* C22: when the interactive loop awaits input and the user enters the
\* reserved end-of-conversation string (in any case, blanks around it), that
\* step ends the session without a provider call, and a session the user
\* ended makes no provider call afterwards.
C22_ReservedInputEndsSession ==
    [][ /\ (InputTaken /\ messages'[Len(messages')] = UserStrTurn(" End Conversation "))
            => (pc' = "done" /\ exit' = "user_ended" /\ calls' = calls)
        /\ exit = "user_ended" => (calls' = calls /\ pc' = "done") ]_vars

\* the user ended a session in which the provider had answered
C22_Witness ==
    /\ variant = "memory"
    /\ exit = "user_ended"
    /\ pc = "done"
    /\ calls >= 1
    /\ messages[Len(messages)] = UserStrTurn(" End Conversation ")


-----------------------------------------------------------------------------
(* Unregistered tool names.                                                *)

\* C23: a tool_use block naming a tool that tool_runners does not hold fails
\* closed in the loops that dispatch locally: the step that handles the block
\* runs no handler for it, lets no exception leave the loop, and leaves the
\* conversation ending with a tool_result turn for that tool_use id.
C23_UnknownToolFailsClosed ==
    [][ \A x \in last_result' :
          ( /\ blocks_total' # blocks_total
            /\ variant \in LocalVariants
            /\ x.call.name \notin DOMAIN tool_runners(variant) ) =>
              /\ dispatched' = dispatched
              /\ exit' # "exception"
              /\ IsToolResultFor(messages'[Len(messages')], x.id) ]_vars

-----------------------------------------------------------------------------
(* Tool results and the Entity Store of chat_with_memory.                  *)

\* the step handled a tool_use block
ToolUseHandled == blocks_total' # blocks_total /\ last_result' # {}

\* C27: in chat_with_memory, handling a tool_use block whose tool has no
\* entry in TOOL_ENTITY_UPDATES leaves the Entity Store as it was.
C27_NoUpdaterNoEntityChange ==
    [][ \A x \in last_result' :
          ( /\ ToolUseHandled
            /\ variant = "memory"
            /\ x.call.name \notin TOOL_ENTITY_UPDATES ) =>
              entities' = entities ]_vars

\* a tool without updater returned its result to a session whose store holds
\* a record
C27_Witness ==
    /\ variant = "memory"
    /\ entities # <<>>
    /\ \E x \in last_result :
          /\ x.call.name \notin TOOL_ENTITY_UPDATES
          /\ x.result.ok
          /\ IsToolResultFor(messages[Len(messages)], x.id)


\* C28: when get_city_from_profile returns for the schema-valid input
\* {profile: p}, the step leaves in the Entity Store a record for p that
\* holds the returned city, and the loop goes on to the next block.
C28_ProfileCityStored ==
    [][ \A x \in last_result' :
          ( /\ ToolUseHandled
            /\ variant = "memory"
            /\ x.call = ProfileCall
            /\ x.result.ok ) =>
              /\ \E id \in DictKeys(entities') :
                     RecordGet(DictValue(entities', id), "city") = x.result.data
              /\ pc' = "blocks"
              /\ exit' = "none" ]_vars


-----------------------------------------------------------------------------
(* The conversation handed to the provider.                                *)

\* C29: in run_agent of simplest-client.py and simplest-client-stocks.py and
\* in chat_with_memory, the conversation of every provider call ends with a
\* turn of role user, never with an assistant turn.
C29_CallEndsWithUserTurn ==
    (variant \in {"memory", "simplest", "stocks"} /\ sent # <<>>) =>
        sent[Len(sent)].role = "user"


\* C30: in chat_with_memory every provider call after the first is made with
\* a conversation strictly longer than the one of the call before it,
\* whatever the stop reason of the response in between.
C30_ConversationGrowsBetweenCalls ==
    [][ (variant = "memory" /\ calls' = calls + 1 /\ calls >= 1) =>
            Len(sent') > Len(sent) ]_vars


-----------------------------------------------------------------------------
(* Schema enrichment.                                                      *)

\* the description the typed model of a tool gives a field, None if the tool
\* has no model or the model says nothing about the field
ModelDescription(tool_name, field) ==
    IF tool_name \in DOMAIN tool_model_map
    THEN PydDesc(model_json_schema(tool_model_map[tool_name]), field)
    ELSE None

\* C25: enrichment leaves a tool exactly as listed when tool_model_map has no
\* entry for it, leaves a field exactly as listed when the typed model has no
\* description for it, and where the model has one changes nothing but that
\* field's description, which becomes the model's.
C25_EnrichmentFrame ==
    \A i \in 1..Len(enriched) :
        \A t0 \in {listed_orig[i]} : \A t1 \in {enriched[i]} :
            /\ t1.name = t0.name
            /\ t0.name \notin DOMAIN tool_model_map => t1 = t0
            /\ t0.name \in DOMAIN tool_model_map =>
                 /\ DOMAIN t1.inputSchema = DOMAIN t0.inputSchema
                 /\ DOMAIN t1.inputSchema.properties = DOMAIN t0.inputSchema.properties
                 /\ \A f \in DOMAIN t0.inputSchema.properties :
                      \A m0 \in {t0.inputSchema.properties[f]} :
                      \A m1 \in {t1.inputSchema.properties[f]} :
                        IF ModelDescription(t0.name, f) = None
                        THEN m1 = m0
                        ELSE /\ DOMAIN m1 = DOMAIN m0 \cup {"description"}
                             /\ m1.description = ModelDescription(t0.name, f)
                             /\ \A k \in DOMAIN m0 \ {"description"} : m1[k] = m0[k]

\* get_enriched_tools returned a tool it enriched in one field and left alone
\* in another, next to a tool without entry in tool_model_map
C25_Witness ==
    /\ enrich_pc = "returned"
    /\ \E i, j \in 1..Len(enriched) :
         /\ enriched[i].name = "get_weather_from_city"
         /\ DOMAIN enriched[i].inputSchema.properties = {"city", "profile"}
         /\ enriched[i].inputSchema.properties["city"]
                # listed_orig[i].inputSchema.properties["city"]
         /\ enriched[i].inputSchema.properties["profile"]
                = listed_orig[i].inputSchema.properties["profile"]
         /\ enriched[j].name = "get_time"
         /\ "properties" \in DOMAIN enriched[j].inputSchema
         /\ enriched[j].inputSchema.properties # <<>>

\* C26: a tool whose inputSchema has no properties map makes get_enriched_tools
\* skip the enrichment of that tool only: no failure is raised, and the list
\* it returns holds every listed tool.
C26_MalformedSchemaSkipped ==
    /\ enrich_pc # "raised"
    /\ enrich_pc = "returned" => Len(enriched) = Len(listed_orig)


-----------------------------------------------------------------------------
(* Concurrent sessions.                                                    *)

-----------------------------------------------------------------------------
(* The stop reason end_turn with a tool_use block in the response.         *)

\* C31: in every loop, the step that reads the stop reason end_turn either
\* ends the session or moves it to awaiting user input, whether or not the
\* response held a tool_use block; it never leads to another provider call.
C31_EndTurnNeverCallsAgain ==
    [][ (pc = "blocks" /\ stop_reason' = "end_turn") => pc' \in {"done", "input"} ]_vars


-----------------------------------------------------------------------------
(* Failed tool calls in chat_with_memory.                                  *)

\* C32: in chat_with_memory, the step that handles a tool_use block whose
\* tool call fails leaves the Entity Store as it was, whether or not the tool
\* has an updater in TOOL_ENTITY_UPDATES, and the loop stays in the response
\* to handle its remaining blocks.
C32_FailedToolLeavesEntities ==
    [][ \A x \in last_result' :
          (ToolUseHandled /\ variant = "memory" /\ ~x.result.ok) =>
              /\ entities' = entities
              /\ pc' = "blocks"
              /\ exit' = "none" ]_vars

\* a tool with an updater failed and the next block of the same response, a
\* tool_use, was handled after it
C32_Witness ==
    /\ variant = "memory"
    /\ \E i \in 2..(Len(messages) - 1) :
         /\ IsToolUseTurn(messages[i - 1])
         /\ messages[i - 1].content[1].name \in TOOL_ENTITY_UPDATES
         /\ IsToolResultFor(messages[i], messages[i - 1].content[1].id)
         /\ messages[i].content[1].content = PyStr("error: ToolError")
         /\ IsToolUseTurn(messages[i + 1])
         /\ messages[i + 1].content[1].id[1] = messages[i - 1].content[1].id[1]


-----------------------------------------------------------------------------
(* ENTITY: lines without "=".                                               *)

\* the line starts with the marker and holds no "="
IsMalformedEntityLine(line) ==
    /\ line # <<>>
    /\ line[1] = "ENTITY:"
    /\ \A i \in DOMAIN line : line[i] # "="

\* C33: when the stocks loop processes a text block, the entity store ends up
\* as if the ENTITY: lines without "=" were not in the text: such a line
\* changes nothing and the lines after it are still stored.
C33_MalformedEntityLineSkipped ==
    [][ StocksTextStep =>
          \A lines \in {splitlines(messages'[Len(messages')].content[1].text)} :
              entities' = StashEntities(entities,
                              SelectSeq(lines, LAMBDA l : ~IsMalformedEntityLine(l))) ]_vars

\* a text with the line ENTITY:price before the line ENTITY:last=80.11 was
\* processed: last is stored, price is not
C33_Witness ==
    /\ variant = "stocks"
    /\ messages[Len(messages)].role = "assistant"
    /\ messages[Len(messages)].content[1].type = "text"
    /\ \E i, j \in DOMAIN splitlines(messages[Len(messages)].content[1].text) :
         /\ i < j
         /\ IsMalformedEntityLine(splitlines(messages[Len(messages)].content[1].text)[i])
         /\ IsEntityLine(splitlines(messages[Len(messages)].content[1].text)[j])
    /\ "last" \in DictKeys(entities)
    /\ DictValue(entities, "last") = "80.11"
    /\ "price" \notin DictKeys(entities)


-----------------------------------------------------------------------------
(* Exhaustion and backoff of the retry helpers.                            *)

\* each of the first n attempts fails
AllFail(o, n) == \A i \in 1..n : o[i] # "ok"

\* C34: run_tool_with_retries never makes more than max_retries attempts, and
\* when every permitted attempt fails it has made max_retries attempts when it
\* ends and hands its caller a failure (an exception, or the value "error")
\* and not the result of an attempt.
C34_ToolRetriesExhausted ==
    retry.fn = "run_tool_with_retries" =>
        /\ retry.attempts <= retry.max_retries
        /\ (retry.pc = "done" /\ AllFail(retry.outcomes, retry.max_retries)) =>
             /\ retry.attempts = retry.max_retries
             /\ retry.result # "result of attempt"
             /\ retry.raised # None \/ retry.result = "error"


\* C35: in both retry helpers a backoff wait happens only between two
\* attempts: there are never as many waits as attempts, and a run in which
\* all max_retries permitted attempts fail ends after exactly max_retries - 1
\* waits.
C35_WaitsOnlyBetweenAttempts ==
    retry.fn \in RetryFunctions =>
        /\ retry.attempts > 0 => retry.waits < retry.attempts
        /\ ( /\ retry.pc = "done"
             /\ retry.max_retries > 0
             /\ AllFail(retry.outcomes, retry.max_retries) ) =>
               retry.waits = retry.max_retries - 1


\* C36: get_recent_messages(w) returns the last min(w, n) turns of an n-turn
\* store in their stored order, for every w >= 0, and so never more than w
\* turns.
C36_RecentIsLastWindow ==
    \A c \in 1..Len(recent_call) :
        LET w == recent_call[c].window_size
            n == Len(recent_call[c].messages)
            k == IF w < n THEN w ELSE n
        IN  /\ Len(recent_call[c].returned) = k
            /\ Len(recent_call[c].returned) <= w
            /\ \A i \in 1..k :
                 recent_call[c].returned[i] = recent_call[c].messages[n - k + i]


\* C37: after any sequence of hydrate_from_data, upsert and add_note calls,
\* every key k of EntityMemory.entities maps to a record whose id field is k.
C37_IdFieldEqualsKey ==
    ent_kind = "memory" =>
        \A s \in {entities, entities_b} : \A k \in DictKeys(s) :
            RecordGet(DictValue(s, k), "id") = PyStr(k)

====
